---------------------------- MODULE Spec2Model ----------------------------
(***************************************************************************)
(* A model of scholar.py: the Article record, the result-page parsers with *)
(* their link classifier, and the ScholarQuerier orchestrator.             *)
(*                                                                         *)
(* Python strings are modelled as sequences of one-character strings, so   *)
(* that startswith, split, join, int() and the % formatting are computed   *)
(* and not assumed.  Python values are tagged records: None, a string or   *)
(* an integer.                                                             *)
(***************************************************************************)
EXTENDS Integers, Sequences, FiniteSets, TLC

VARIABLES
    attrs,      \* Article.attrs of the record under test
    csvOut,     \* the string returned by the last as_csv call
    recOp,      \* the last Article operation and its arguments
    nsets,      \* number of __setitem__ calls made so far
    article,    \* ScholarParser.article, the record of the block being parsed
    link,       \* the outcome of the last _parse_links call
    querier,    \* the fields of the ScholarQuerier object
    ctorArgs,   \* the arguments the querier was constructed with
    pc,         \* "idle", or "rows" inside CitationParser.parse
    rows,       \* the rows of the profile page still to be parsed
    call        \* the current or last query: its outcome so far

recVars == <<attrs, csvOut, recOp, nsets>>
linkVars == <<article, link>>
ctorVars == <<querier, ctorArgs>>
flowVars == <<pc, rows, call>>
vars == <<recVars, linkVars, ctorVars, flowVars>>

\* the variables each group of actions leaves alone
notRec == <<linkVars, ctorVars, flowVars>>
notLink == <<recVars, ctorVars, flowVars>>
notCtor == <<recVars, linkVars, flowVars>>

(***************************************************************************)
(* Bounds of the model.                                                    *)
(***************************************************************************)
MaxSets == 1      \* __setitem__ calls made on the record under test
MaxSpan == 1      \* children of the span given to _parse_links
MaxUnder == 2     \* how far below 0 the count argument goes
MaxOver == 2      \* how far above 100 the count argument goes
MaxBlocks == 2    \* article blocks on a result page
MaxRows == 2      \* rows on an author profile page

(***************************************************************************)
(* String constants of the program.                                        *)
(***************************************************************************)
K_title == <<"t","i","t","l","e">>
K_authors == <<"a","u","t","h","o","r","s">>
K_url == <<"u","r","l">>
K_num_citations ==
    <<"n","u","m","_","c","i","t","a","t","i","o","n","s">>
K_num_versions == <<"n","u","m","_","v","e","r","s","i","o","n","s">>
K_url_citations ==
    <<"u","r","l","_","c","i","t","a","t","i","o","n","s">>
K_url_versions == <<"u","r","l","_","v","e","r","s","i","o","n","s">>
K_year == <<"y","e","a","r">>
K_journal == <<"j","o","u","r","n","a","l">>
L_Title == <<"T","i","t","l","e">>
L_Authors == <<"A","u","t","h","o","r","s">>
L_URL == <<"U","R","L">>
L_Citations == <<"C","i","t","a","t","i","o","n","s">>
L_Versions == <<"V","e","r","s","i","o","n","s">>
L_Citations_list ==
    <<"C","i","t","a","t","i","o","n","s"," ","l","i","s","t">>
L_Versions_list ==
    <<"V","e","r","s","i","o","n","s"," ","l","i","s","t">>
L_Year == <<"Y","e","a","r">>
L_Journal == <<"J","o","u","r","n","a","l">>
NONE_TEXT == <<"N","o","n","e">>

(***************************************************************************)
(* Python built-ins on strings.                                            *)
(***************************************************************************)
StartsWith(s, p) ==
    Len(p) <= Len(s) /\ SubSeq(s, 1, Len(p)) = p

EndsWith(s, p) ==
    Len(p) <= Len(s) /\ SubSeq(s, Len(s) - Len(p) + 1, Len(s)) = p

Contains(s, p) ==
    \E i \in 1..(Len(s) - Len(p) + 1) : SubSeq(s, i, i + Len(p) - 1) = p

\* sep.join(parts)
RECURSIVE Join(_, _)
Join(parts, sep) ==
    IF parts = <<>> THEN <<>>
    ELSE IF Len(parts) = 1 THEN parts[1]
    ELSE parts[1] \o sep \o Join(Tail(parts), sep)

\* s.split(sep) for a non-empty sep
RECURSIVE Split(_, _)
Split(s, sep) ==
    LET hits == {i \in 1..(Len(s) - Len(sep) + 1) :
                    SubSeq(s, i, i + Len(sep) - 1) = sep}
    IN  IF hits = {} THEN <<s>>
        ELSE LET i == CHOOSE h \in hits : \A g \in hits : h <= g
             IN  <<SubSeq(s, 1, i - 1)>>
                    \o Split(SubSeq(s, i + Len(sep), Len(s)), sep)

Digits == <<"0", "1", "2", "3", "4", "5", "6", "7", "8", "9">>

\* '%d' % n and unicode(n) for an integer n
RECURSIVE NatToStr(_)
NatToStr(n) ==
    IF n < 10 THEN <<Digits[n + 1]>>
    ELSE NatToStr(n \div 10) \o <<Digits[(n % 10) + 1]>>

IntToStr(n) == IF n < 0 THEN <<"-">> \o NatToStr(0 - n) ELSE NatToStr(n)

(***************************************************************************)
(* Python values.                                                          *)
(***************************************************************************)
NoneV == [t |-> "none"]
StrV(s) == [t |-> "str", s |-> s]
IntV(n) == [t |-> "int", n |-> n]

\* truth value of a Python value, as tested by `if value:`
Truthy(v) ==
    CASE v.t = "none" -> FALSE
      [] v.t = "str"  -> v.s # <<>>
      [] v.t = "int"  -> v.n # 0

\* unicode(value)
Unicode(v) ==
    CASE v.t = "none" -> NONE_TEXT
      [] v.t = "str"  -> v.s
      [] v.t = "int"  -> IntToStr(v.n)

(***************************************************************************)
(* class Article                                                           *)
(***************************************************************************)
Attr(v, l, i) == [val |-> v, label |-> l, idx |-> i]

\* Article.__init__
ArticleInit ==
    (K_title         :> Attr(NoneV,   L_Title,          0)) @@
    (K_authors       :> Attr(NoneV,   L_Authors,        1)) @@
    (K_url           :> Attr(NoneV,   L_URL,            2)) @@
    (K_num_citations :> Attr(IntV(0), L_Citations,      3)) @@
    (K_num_versions  :> Attr(IntV(0), L_Versions,       4)) @@
    (K_url_citations :> Attr(NoneV,   L_Citations_list, 5)) @@
    (K_url_versions  :> Attr(NoneV,   L_Versions_list,  6)) @@
    (K_year          :> Attr(NoneV,   L_Year,           7)) @@
    (K_journal       :> Attr(NoneV,   L_Journal,        8))

\* Article.__getitem__
GetItem(a, key) == IF key \in DOMAIN a THEN a[key].val ELSE NoneV

\* Article.__setitem__
SetItem(a, key, item) ==
    IF key \in DOMAIN a
    THEN [a EXCEPT ![key].val = item]
    ELSE a @@ (key :> Attr(item, key, Cardinality(DOMAIN a)))

\* Article.__delitem__
DelItem(a, key) ==
    IF key \in DOMAIN a THEN [k \in DOMAIN a \ {key} |-> a[k]] ELSE a

\* sorted(..., key=index): the sort is stable, and a dict's iteration order
\* is arbitrary, so fields that share an index come out in either order.
RECURSIVE SortedKeys(_)
SortedKeys(a) ==
    IF DOMAIN a = {} THEN {<<>>}
    ELSE LET least == {k \in DOMAIN a :
                          \A j \in DOMAIN a : a[k].idx <= a[j].idx}
         IN  UNION {{<<k>> \o rest : rest \in SortedKeys(DelItem(a, k))} :
                        k \in least}

\* a value line that leaves out the fields whose value is None
CsvRowSkipNone(a, keys, sep) ==
    Join([i \in 1..Len(SelectSeq(keys, LAMBDA k : a[k].val # NoneV)) |->
             Unicode(a[SelectSeq(keys, LAMBDA k : a[k].val # NoneV)[i]].val)],
         sep)

\* the value line of as_csv
CsvRow(a, keys, sep) ==
    Join([i \in 1..Len(keys) |-> Unicode(a[keys[i]].val)], sep)

\* Article.as_csv, for one iteration order of the dict
AsCsv(a, keys, header, sep) ==
    LET res == (IF header THEN <<Join(keys, sep)>> ELSE <<>>)
                  \o <<CsvRow(a, keys, sep)>>
    IN  Join(res, <<"\n">>)

(***************************************************************************)
(* The Article operations as actions, on one record.                       *)
(***************************************************************************)
ExtraKeys == {<<"x">>, <<"a", "|", "b">>}
RecKeys == DOMAIN ArticleInit \cup ExtraKeys
SetKeys == {K_title} \cup ExtraKeys
RecItems == {StrV(<<"a", ",">>), IntV(12)}
Seps == {<<"|">>, <<",">>}

\* The fields a delete is tried on: those at either end of the display
\* order (this keeps the reachable records to runs of adjacent fields).
DelTargets(a) ==
    {k \in DOMAIN a : \/ \A j \in DOMAIN a : a[k].idx <= a[j].idx
                      \/ \A j \in DOMAIN a : a[k].idx >= a[j].idx}

RecSet(key, item) ==
    /\ nsets < MaxSets
    /\ attrs' = SetItem(attrs, key, item)
    /\ nsets' = nsets + 1
    /\ recOp' = [op |-> "set"]
    /\ csvOut' = <<>>
    /\ UNCHANGED notRec

RecDel(key) ==
    /\ key \in DelTargets(attrs)
    /\ attrs' = DelItem(attrs, key)
    /\ recOp' = [op |-> "del"]
    /\ csvOut' = <<>>
    /\ UNCHANGED <<nsets, notRec>>

RecDelAbsent(key) ==
    /\ key \notin DOMAIN attrs
    /\ attrs' = DelItem(attrs, key)
    /\ recOp' = [op |-> "del"]
    /\ csvOut' = <<>>
    /\ UNCHANGED <<nsets, notRec>>

RecAsCsv(header, sep) ==
    /\ \E keys \in SortedKeys(attrs) : csvOut' = AsCsv(attrs, keys, header, sep)
    /\ recOp' = [op |-> "as_csv", header |-> header, sep |-> sep]
    /\ UNCHANGED <<attrs, nsets, notRec>>

RecNext ==
    \/ \E key \in SetKeys, item \in RecItems : RecSet(key, item)
    \/ \E key \in RecKeys : RecDel(key)
    \/ \E key \in RecKeys : RecDelAbsent(key)
    \/ \E header \in BOOLEAN, sep \in Seps : RecAsCsv(header, sep)



(***************************************************************************)
(* class ScholarParser: string constants and helpers.                      *)
(***************************************************************************)
SCHOLAR_SITE ==
    <<"h","t","t","p",":","/","/","s","c","h","o","l","a","r",".","g","o",
      "o","g","l","e",".","c","o","m">>
HTTP_SCHEME == <<"h","t","t","p",":","/","/">>
CITES_PREFIX ==
    <<"/","s","c","h","o","l","a","r","?","c","i","t","e","s">>
CLUSTER_PREFIX ==
    <<"/","s","c","h","o","l","a","r","?","c","l","u","s","t","e","r">>
CITED_BY == <<"C","i","t","e","d"," ","b","y">>
ALL_SP == <<"A","l","l"," ">>

IsSpace(c) == c \in {" ", "\t", "\n"}

\* s.split(): the maximal runs of non-whitespace characters
RECURSIVE SplitWs(_)
SplitWs(s) ==
    IF s = <<>> THEN <<>>
    ELSE IF IsSpace(s[1]) THEN SplitWs(Tail(s))
    ELSE LET ends == {i \in 1..Len(s) : IsSpace(s[i])}
             e    == IF ends = {} THEN Len(s) + 1
                     ELSE CHOOSE h \in ends : \A g \in ends : h <= g
         IN  <<SubSeq(s, 1, e - 1)>> \o SplitWs(SubSeq(s, e, Len(s)))

\* s.strip()
RECURSIVE Strip(_)
Strip(s) ==
    IF s = <<>> THEN s
    ELSE IF IsSpace(s[1]) THEN Strip(Tail(s))
    ELSE IF IsSpace(s[Len(s)]) THEN Strip(SubSeq(s, 1, Len(s) - 1))
    ELSE s

IsNumeral(s) ==
    s # <<>> /\ \A i \in 1..Len(s) : \E d \in 1..10 : Digits[d] = s[i]

RECURSIVE StrToNat(_)
StrToNat(s) ==
    IF s = <<>> THEN 0
    ELSE StrToNat(SubSeq(s, 1, Len(s) - 1)) * 10
            + ((CHOOSE d \in 1..10 : Digits[d] = s[Len(s)]) - 1)

\* an _as_int that answers 0 when int() raises ValueError
AsIntOrZero(obj) ==
    LET t    == Strip(obj)
        sgn  == t # <<>> /\ t[1] \in {"+", "-"}
        body == IF sgn THEN Tail(t) ELSE t
    IN  IF ~IsNumeral(body) THEN IntV(0)
        ELSE IF sgn /\ t[1] = "-" THEN IntV(0 - StrToNat(body))
        ELSE IntV(StrToNat(body))

\* ScholarParser._as_int: int(obj), or None when int() raises ValueError
AsInt(obj) ==
    LET t    == Strip(obj)
        sgn  == t # <<>> /\ t[1] \in {"+", "-"}
        body == IF sgn THEN Tail(t) ELSE t
    IN  IF ~IsNumeral(body) THEN NoneV
        ELSE IF sgn /\ t[1] = "-" THEN IntV(0 - StrToNat(body))
        ELSE IntV(StrToNat(body))

\* ScholarParser._path2url
Path2Url(site, path) ==
    IF StartsWith(path, HTTP_SCHEME) THEN path
    ELSE IF ~StartsWith(path, <<"/">>) THEN site \o (<<"/">> \o path)
    ELSE site \o path

(***************************************************************************)
(* The parsed document (BeautifulSoup).  A node is a text node, which has  *)
(* no name, or a tag with a name, the attributes class, id and href (None  *)
(* when the tag has no href) and its children.                             *)
(***************************************************************************)
Text(s) ==
    [kind |-> "text", name |-> "", class |-> "", id |-> "", href |-> NoneV,
     kids |-> <<>>, s |-> s]
El(name, class, id, href, kids) ==
    [kind |-> "tag", name |-> name, class |-> class, id |-> id,
     href |-> href, kids |-> kids, s |-> <<>>]

\* the descendants of a tag, in document order
RECURSIVE Desc(_)
Desc(tag) ==
    LET F[i \in 0..Len(tag.kids)] ==
            IF i = 0 THEN <<>>
            ELSE F[i - 1] \o <<tag.kids[i]>> \o Desc(tag.kids[i])
    IN  F[Len(tag.kids)]

\* tag.findAll(name) and tag.find(name): the descendant tags of that name
FindAllName(tag, name) ==
    SelectSeq(Desc(tag), LAMBDA n : n.kind = "tag" /\ n.name = name)

\* tag.find(name, {'class': class}): the descendant tags of that name and class
FindAllClass(tag, name, class) ==
    SelectSeq(Desc(tag),
              LAMBDA n : n.kind = "tag" /\ n.name = name /\ n.class = class)

\* tag.find(id=id): the descendant tags with that id
FindAllId(tag, id) ==
    SelectSeq(Desc(tag), LAMBDA n : n.kind = "tag" /\ n.id = id)

\* tag.findAll(text=True): the strings of the descendant text nodes
TextsOf(tag) ==
    LET ns == SelectSeq(Desc(tag), LAMBDA n : n.kind = "text")
    IN  [i \in 1..Len(ns) |-> ns[i].s]

\* tag.getText() and tag.text: the stripped strings of the text nodes, joined
GetText(tag) ==
    LET ts == TextsOf(tag)
    IN  Join([i \in 1..Len(ts) |-> Strip(ts[i])], <<>>)

\* tag.string: the only child when that is a text node, else None
TagString(tag) ==
    IF Len(tag.kids) = 1 /\ tag.kids[1].kind = "text"
    THEN StrV(tag.kids[1].s)
    ELSE NoneV

\* hasattr(tag, 'name')
HasAttrName(tag) == tag.kind = "tag"

\* hasattr(tag, 'string'): a BeautifulSoup tag answers every attribute
\* lookup, with None when it has no single string, so this is always true.
HasAttrString(tag) == tag.kind = "tag"

\* href.startswith('/scholar?cites')
IsCitesLink(href) == StartsWith(href, CITES_PREFIX)

\* a versions test that compares only the part the two prefixes share
IsClusterLinkShort(href) == StartsWith(href, SubSeq(CLUSTER_PREFIX, 1, 10))

\* href.startswith('/scholar?cluster')
IsClusterLink(href) == StartsWith(href, CLUSTER_PREFIX)

Ok(art, wrote) == [art |-> art, exc |-> "none", wrote |-> wrote]
Raise(art, wrote, exc) == [art |-> art, exc |-> exc, wrote |-> wrote]

\* _parse_links, lines 178-182: the 'Cited by' branch for one anchor
CitesBranch(site, art, tag, wrote) ==
    IF ~IsCitesLink(tag.href.s) THEN Ok(art, wrote)
    ELSE IF HasAttrString(tag) /\ TagString(tag) = NoneV
    THEN Raise(art, wrote, "AttributeError")
    ELSE LET counted == HasAttrString(tag) /\ StartsWith(TagString(tag).s, CITED_BY)
             toks == SplitWs(TagString(tag).s)
             a1 == IF counted
                   THEN SetItem(art, K_num_citations, AsInt(toks[Len(toks)]))
                   ELSE art
             w1 == IF counted THEN wrote \cup {K_num_citations} ELSE wrote
         IN  Ok(SetItem(a1, K_url_citations, StrV(Path2Url(site, tag.href.s))),
                w1 \cup {K_url_citations})

\* _parse_links, lines 184-188: the 'All ... versions' branch for one anchor
ClusterBranch(site, art, tag, wrote) ==
    IF ~IsClusterLink(tag.href.s) THEN Ok(art, wrote)
    ELSE IF HasAttrString(tag) /\ TagString(tag) = NoneV
    THEN Raise(art, wrote, "AttributeError")
    ELSE LET counted == HasAttrString(tag) /\ StartsWith(TagString(tag).s, ALL_SP)
             toks == SplitWs(TagString(tag).s)
         IN  IF counted /\ Len(toks) < 2
             THEN Raise(art, wrote, "IndexError")
             ELSE LET a1 == IF counted
                            THEN SetItem(art, K_num_versions, AsInt(toks[2]))
                            ELSE art
                      w1 == IF counted THEN wrote \cup {K_num_versions}
                            ELSE wrote
                  IN  Ok(SetItem(a1, K_url_versions,
                                 StrV(Path2Url(site, tag.href.s))),
                         w1 \cup {K_url_versions})

\* _parse_links, line 184: the second test, reached when the first branch
\* raised nothing
ThenCluster(site, c, tag) ==
    IF c.exc # "none" THEN c
    ELSE ClusterBranch(site, c.art, tag, c.wrote)

\* _parse_links: the body of the loop, for one child of the span
LinkStep(site, art, tag) ==
    IF ~HasAttrName(tag) THEN Ok(art, {})
    ELSE IF tag.name # "a" \/ tag.href = NoneV THEN Ok(art, {})
    ELSE ThenCluster(site, CitesBranch(site, art, tag, {}), tag)

\* the state of the loop after the child tag: r is what the body did to the
\* article of st
AfterChild(st, r, tag) ==
    [art |-> r.art, exc |-> r.exc, wrote |-> r.wrote, tag |-> tag,
     before |-> st.art]

\* _parse_links: the loop over the children of the span.  The result holds
\* the article, the exception that ended the loop (if any) and, for the
\* last child processed: the child, the article before it and the fields
\* it wrote.
RECURSIVE ParseLinksFrom(_, _, _, _)
ParseLinksFrom(site, st, span, i) ==
    IF i > Len(span) \/ st.exc # "none" THEN st
    ELSE ParseLinksFrom(site,
             AfterChild(st, LinkStep(site, st.art, span[i]), span[i]),
             span, i + 1)

ParseLinks(site, art, span) ==
    ParseLinksFrom(site,
        [art |-> art, exc |-> "none", wrote |-> {},
         tag |-> Text(<<>>), before |-> art],
        span, 1)

(***************************************************************************)
(* The link classifier as actions, on the article of one block.            *)
(***************************************************************************)
\* no _parse_links call made yet on the article
NoLink == ParseLinks(SCHOLAR_SITE, ArticleInit, <<>>)

H_cites ==
    <<"/","s","c","h","o","l","a","r","?","c","i","t","e","s","=","1">>
H_cluster ==
    <<"/","s","c","h","o","l","a","r","?","c","l","u","s","t","e","r","=",
      "9">>
H_related ==
    <<"/","s","c","h","o","l","a","r","?","q","=","r","e","l","a","t","e",
      "d",":","x">>
H_abs ==
    <<"h","t","t","p",":","/","/","x",".","o","r","g","/","p">>
T_cited42 == <<"C","i","t","e","d"," ","b","y"," ","4","2">>
T_citedx == <<"C","i","t","e","d"," ","b","y"," ","x">>
T_all3 ==
    <<"A","l","l"," ","3"," ","v","e","r","s","i","o","n","s">>
T_allx == <<"A","l","l"," ","x">>
T_all == <<"A","l","l"," ">>
T_import == <<"I","m","p","o","r","t">>

\* <a href=...>...</a>
A(href, kids) == El("a", "", "", href, kids)

\* the children of an anchor whose text carries markup:
\* <b>Cited</b> by 42
MarkedUp == <<El("b", "", "", NoneV, <<Text(<<"C", "i", "t", "e", "d">>)>>),
              Text(<<" ", "b", "y", " ", "4", "2">>)>>

Hrefs == {H_cites, H_cluster, H_related, H_abs}
Texts == {T_cited42, T_citedx, T_all3, T_allx, T_all, T_import}

\* the children a span is built from
SpanTags ==
    {Text(T_import), El("b", "", "", NoneV, <<Text(T_import)>>),
     A(NoneV, <<Text(T_import)>>)}
        \cup {A(StrV(h), <<Text(t)>>) : h \in Hrefs, t \in Texts}
        \cup {A(StrV(h), MarkedUp) : h \in Hrefs}

Spans == UNION {[1..n -> SpanTags] : n \in 0..MaxSpan}

\* self.article = Article(), at the start of each _parse_article
LinksNewArticle ==
    /\ article' = ArticleInit
    /\ link' = NoLink
    /\ UNCHANGED notLink

\* self._parse_links(span)
LinksParse(span) ==
    /\ link.exc = "none"
    /\ link' = ParseLinks(SCHOLAR_SITE, article, span)
    /\ article' = link'.art
    /\ UNCHANGED notLink

LinksNext ==
    \/ LinksNewArticle
    \/ \E span \in Spans : LinksParse(span)

(***************************************************************************)
(* class ScholarQuerier: construction.                                     *)
(***************************************************************************)
SCHOLAR_URL ==
    <<"h","t","t","p",":","/","/","s","c","h","o","l","a","r",".","g","o",
      "o","g","l","e",".","c","o","m","/","s","c","h","o","l","a","r","?",
      "h","l","=","e","n","&","q","=","%","(","q","u","e","r","y",")","s",
      "+","a","u","t","h","o","r",":","%","(","a","u","t","h","o","r",")",
      "s","&","b","t","n","G","=","S","e","a","r","c","h","&","a","s","_",
      "s","u","b","j","=","e","n","g","&","a","s","_","s","d","t","=","1",
      ",","5","&","a","s","_","y","l","o","=","&","a","s","_","v","i","s",
      "=","0">>
NOAUTH_URL ==
    <<"h","t","t","p",":","/","/","s","c","h","o","l","a","r",".","g","o",
      "o","g","l","e",".","c","o","m","/","s","c","h","o","l","a","r","?",
      "h","l","=","e","n","&","q","=","%","(","q","u","e","r","y",")","s",
      "&","b","t","n","G","=","S","e","a","r","c","h","&","a","s","_","s",
      "u","b","j","=","e","n","g","&","a","s","_","s","t","d","=","1",",",
      "5","&","a","s","_","y","l","o","=","&","a","s","_","v","i","s","=",
      "0">>
SEARCH_AUTHOR_URL ==
    <<"h","t","t","p",":","/","/","s","c","h","o","l","a","r",".","g","o",
      "o","g","l","e",".","c","o","m","/","c","i","t","a","t","i","o","n",
      "s","?","h","l","=","e","n","&","v","i","e","w","_","o","p","=","s",
      "e","a","r","c","h","_","a","u","t","h","o","r","s","&","m","a","u",
      "t","h","o","r","s","=","%","(","a","u","t","h","o","r",")","s">>
NUM_FMT == <<"&","n","u","m","=">>
SLOT_QUERY == <<"%","(","q","u","e","r","y",")","s">>
SLOT_AUTHOR == <<"%","(","a","u","t","h","o","r",")","s">>

\* the largest result count Google supports
MAX_COUNT == 100

Min(a, b) == IF a <= b THEN a ELSE b

\* self.count = min(count, 100)
ClipCount(count) == Min(count, MAX_COUNT)

\* ScholarQuerier.__init__
QuerierInit(author, scholar_url, count, search_author) ==
    LET c    == ClipCount(count)
        base == IF author = <<>> THEN NOAUTH_URL
                ELSE IF search_author THEN SEARCH_AUTHOR_URL
                ELSE IF Truthy(scholar_url) THEN scholar_url.s
                ELSE SCHOLAR_URL
    IN  [articles      |-> <<>>,
         author        |-> author,
         search_author |-> search_author,
         count         |-> c,
         scholar_url   |-> IF c # 0 THEN base \o NUM_FMT \o IntToStr(c)
                           ELSE base]

(***************************************************************************)
(* Construction as an action, over a range of arguments.                   *)
(***************************************************************************)
U_custom ==
    <<"h","t","t","p",":","/","/","s",".","e","x","a","m","p","l","e","/",
      "?","q","=","%","(","q","u","e","r","y",")","s">>

Authors == {<<>>, <<"a">>}
UrlArgs == {NoneV, StrV(U_custom)}
CountArgs == (0 - MaxUnder)..(MAX_COUNT + MaxOver)

\* ScholarQuerier(author, scholar_url, count, search_author)
CtorNew(author, scholar_url, count, search_author) ==
    /\ querier' = QuerierInit(author, scholar_url, count, search_author)
    /\ ctorArgs' = [author |-> author, scholar_url |-> scholar_url,
                    count |-> count, search_author |-> search_author]
    /\ UNCHANGED notCtor

CtorNext ==
    \E author \in Authors, scholar_url \in UrlArgs, count \in CountArgs,
       search_author \in BOOLEAN :
        CtorNew(author, scholar_url, count, search_author)

(***************************************************************************)
(* The result-page parsers: ScholarParser and its two revisions.           *)
(***************************************************************************)
Letters ==
    {"a", "b", "c", "d", "e", "f", "g", "h", "i", "j", "k", "l", "m",
     "n", "o", "p", "q", "r", "s", "t", "u", "v", "w", "x", "y", "z",
     "A", "B", "C", "D", "E", "F", "G", "H", "I", "J", "K", "L", "M",
     "N", "O", "P", "Q", "R", "S", "T", "U", "V", "W", "X", "Y", "Z"}

IsDigit(c) == \E d \in 1..10 : Digits[d] = c

\* \w of the regular expression
IsWordChar(c) == c \in Letters \/ IsDigit(c) \/ c = "_"

\* year_re matches at position i of s: \b(?:20|19)\d{2}\b
YearAt(s, i) ==
    /\ i + 3 <= Len(s)
    /\ SubSeq(s, i, i + 1) \in {<<"2", "0">>, <<"1", "9">>}
    /\ IsDigit(s[i + 2]) /\ IsDigit(s[i + 3])
    /\ i = 1 \/ ~IsWordChar(s[i - 1])
    /\ i + 3 = Len(s) \/ ~IsWordChar(s[i + 4])

\* year[0] if len(year) > 0 else None, for year = year_re.findall(text)
FindYear(s) ==
    LET hits == {i \in 1..Len(s) : YearAt(s, i)}
    IN  IF hits = {} THEN NoneV
        ELSE LET i == CHOOSE h \in hits : \A g \in hits : h <= g
             IN  StrV(SubSeq(s, i, i + 3))

\* the outcome of a piece of _parse_article: the article and the exception
\* raised, if any
Step(art, exc) == [art |-> art, exc |-> exc]

\* self.article['title'] = ''.join(a.findAll(text=True))
\* self.article['url'] = self._path2url(a['href'])
SetTitleUrl(site, art, a) ==
    LET titled == SetItem(art, K_title, StrV(Join(TextsOf(a), <<>>)))
    IN  IF a.href = NoneV THEN Step(titled, "KeyError")
        ELSE Step(SetItem(titled, K_url, StrV(Path2Url(site, a.href.s))),
                  "none")

\* the article and the exception of an outcome of _parse_links
AsStep(r) == Step(r.art, r.exc)

\* self._parse_links(span), as a piece of _parse_article
LinksOf(site, art, span) == AsStep(ParseLinks(site, art, span.kids))

\* the title and URL assignments, made when the anchor looked up exists:
\* as holds the anchors found
TitleStep(site, st, as) ==
    IF st.exc # "none" \/ as = <<>> THEN st
    ELSE SetTitleUrl(site, st.art, as[1])

\* the year assignment, made when the byline looked up exists
YearStep(st, gas) ==
    IF st.exc # "none" \/ gas = <<>> THEN st
    ELSE Step(SetItem(st.art, K_year, FindYear(GetText(gas[1]))), "none")

\* the call of _parse_links, made when the links container exists
LinksStep(site, st, fls) ==
    IF st.exc # "none" \/ fls = <<>> THEN st
    ELSE LinksOf(site, st.art, fls[1])

\* ScholarParser._parse_article, lines 161-166: the spans of a font tag
RECURSIVE FontLinks(_, _, _, _)
FontLinks(site, st, font, i) ==
    IF i > Len(font.kids) \/ st.exc # "none" THEN st
    ELSE FontLinks(site,
             LinksStep(site, st,
                 IF HasAttrName(font.kids[i]) /\ font.kids[i].name = "span"
                        /\ font.kids[i].class = "gs_fl"
                 THEN <<font.kids[i]>> ELSE <<>>),
             font, i + 1)

FontStep(site, st, tag) ==
    IF st.exc # "none" \/ tag.name # "font" THEN st
    ELSE FontLinks(site, st, tag, 1)

\* tag.h3 and tag.h3.a: the anchors under the first h3 of the tag
H3Anchors(tag) ==
    LET h3s == FindAllName(tag, "h3")
    IN  IF h3s = <<>> THEN <<>> ELSE FindAllName(h3s[1], "a")

\* ScholarParser._parse_article: the loop body, for one child of the block
ChildBase(site, art, tag) ==
    FontStep(site,
        TitleStep(site, Step(art, "none"),
            IF tag.name = "div" /\ tag.class = "gs_rt"
            THEN H3Anchors(tag) ELSE <<>>),
        tag)

\* ScholarParser120201._parse_article: the loop body
Child120201(site, art, tag) ==
    LinksStep(site,
        YearStep(
            TitleStep(site, Step(art, "none"),
                IF tag.name = "h3" /\ tag.class = "gs_rt"
                THEN FindAllName(tag, "a") ELSE <<>>),
            IF tag.name = "div" /\ tag.class = "gs_a"
            THEN <<tag>> ELSE <<>>),
        IF tag.name = "div" /\ tag.class = "gs_fl" THEN <<tag>> ELSE <<>>)

\* ScholarParser120726._parse_article: the loop body
Child120726(site, art, tag) ==
    IF ~(tag.name = "div" /\ tag.class = "gs_ri") THEN Step(art, "none")
    ELSE LinksStep(site,
             YearStep(
                 TitleStep(site, Step(art, "none"), FindAllName(tag, "a")),
                 FindAllClass(tag, "div", "gs_a")),
             FindAllClass(tag, "div", "gs_fl"))

Variants == {"base", "120201", "120726"}

ChildStep(variant, site, art, tag) ==
    IF ~HasAttrName(tag) THEN Step(art, "none")
    ELSE CASE variant = "base"   -> ChildBase(site, art, tag)
           [] variant = "120201" -> Child120201(site, art, tag)
           [] variant = "120726" -> Child120726(site, art, tag)

\* the loop `for tag in div` of _parse_article
RECURSIVE Children(_, _, _, _, _)
Children(variant, site, st, div, i) ==
    IF i > Len(div.kids) \/ st.exc # "none" THEN st
    ELSE Children(variant, site,
                  ChildStep(variant, site, st.art, div.kids[i]), div, i + 1)

\* an emission test that lets every record through
EmitsAlways(art) == TRUE

\* if self.article['title']: self.handle_article(self.article)
Emits(art) == Truthy(GetItem(art, K_title))

\* the end of _parse_article: the article, the exception raised (if any)
\* and whether handle_article is called with the article
AfterLoop(st) ==
    [art |-> st.art, exc |-> st.exc,
     emit |-> st.exc = "none" /\ Emits(st.art)]

\* _parse_article of one variant
ParseArticle(variant, site, div) ==
    AfterLoop(Children(variant, site, Step(ArticleInit, "none"), div, 1))

\* ScholarParser._tag_checker
IsBlock(tag) == tag.kind = "tag" /\ tag.name = "div" /\ tag.class = "gs_r"

\* the articles handed to handle_article so far, after one more
\* _parse_article with outcome r
Handled(out, r) ==
    [handled |-> IF r.emit THEN Append(out.handled, r.art) ELSE out.handled,
     exc |-> r.exc]

\* ScholarParser.parse: the articles handed to handle_article, in the order
\* of the calls, and the exception that ended the parse (if any)
RECURSIVE ParseBlocks(_, _, _, _, _)
ParseBlocks(variant, site, out, divs, i) ==
    IF i > Len(divs) \/ out.exc # "none" THEN out
    ELSE ParseBlocks(variant, site,
             Handled(out, ParseArticle(variant, site, divs[i])),
             divs, i + 1)

ParserParse(variant, site, soup) ==
    ParseBlocks(variant, site, [handled |-> <<>>, exc |-> "none"],
                SelectSeq(Desc(soup), IsBlock), 1)

(***************************************************************************)
(* The parsers of the author-search flow, nested in ScholarQuerier.        *)
(***************************************************************************)
PAGE_SIZE ==
    <<"&","v","i","e","w","_","o","p","=","l","i","s","t","_","w","o","r",
      "k","s","&","p","a","g","e","s","i","z","e","=","1","0","0">>
AUTHOR_URL_PATTERN ==
    <<"/","c","i","t","a","t","i","o","n","s","?","u","s","e","r","=">>
CLUSTER_MARK == <<"&","c","l","u","s","t","e","r","=">>
BTN_LUCKY == <<"&","b","t","n","I","=","L","u","c","k","y">>

\* AuthorParser.parse: the URL of the first anchor that holds the author
\* profile marker, or None; str + None raises TypeError
RECURSIVE AuthorLinks(_, _)
AuthorLinks(links, i) ==
    IF i > Len(links) THEN [ret |-> NoneV, exc |-> "none"]
    ELSE IF links[i].href = NoneV THEN [ret |-> NoneV, exc |-> "TypeError"]
    ELSE LET s == SCHOLAR_SITE \o links[i].href.s \o PAGE_SIZE
         IN  IF Contains(s, AUTHOR_URL_PATTERN)
             THEN [ret |-> StrV(s), exc |-> "none"]
             ELSE AuthorLinks(links, i + 1)

AuthorParse(soup) == AuthorLinks(FindAllName(soup, "a"), 1)

\* ViewCitationParser.parse, lines 329-333: the loop over the anchors
RECURSIVE ViewLinks(_, _, _)
ViewLinks(out, links, i) ==
    IF i > Len(links) \/ out.exc # "none" THEN out
    ELSE LET url  == links[i].href
             toks == SplitWs(GetText(links[i]))
         IN  IF url = NoneV
             THEN [out EXCEPT !.exc = "TypeError"]
             ELSE IF ~(Contains(url.s, CLUSTER_MARK)
                          /\ ~EndsWith(url.s, BTN_LUCKY))
             THEN ViewLinks(out, links, i + 1)
             ELSE IF Len(toks) < 2
             THEN [info |-> ("url_versions" :> url) @@ out.info,
                   exc |-> "IndexError"]
             ELSE ViewLinks([info |-> ("num_versions" :> AsInt(toks[2]))
                                        @@ ("url_versions" :> url)
                                        @@ out.info,
                             exc |-> "none"],
                            links, i + 1)

\* a ViewCitationParser.parse that answers an empty article_info for a page
\* without the 'cit-contentcell' cell
ViewCitationParseLenient(soup) ==
    IF FindAllClass(soup, "td", "cit-contentcell") = <<>>
    THEN [info |-> <<>>, exc |-> "none"]
    ELSE ViewLinks([info |-> <<>>, exc |-> "none"],
                   FindAllName(FindAllClass(soup, "td", "cit-contentcell")[1],
                               "a"), 1)

\* ViewCitationParser.parse: the article_info dict, or the exception raised
ViewCitationParse(soup) ==
    LET cells  == FindAllClass(soup, "td", "cit-contentcell")
        titles == IF cells = <<>> THEN <<>> ELSE FindAllId(cells[1], "title")
        as     == IF titles = <<>> THEN <<>>
                  ELSE FindAllName(titles[1], "a")
    IN  IF as = <<>> THEN [info |-> <<>>, exc |-> "AttributeError"]
        ELSE ViewLinks([info |-> ("url" :> as[1].href), exc |-> "none"],
                       FindAllName(cells[1], "a"), 1)

\* the outcome of a fetch: a transport fault, or the page received
Fault == [fault |-> TRUE, page |-> Text(<<>>)]
Page(soup) == [fault |-> FALSE, page |-> soup]

\* ScholarQuerier.query_citation_view
QueryCitationView(got) ==
    IF got.fault THEN [info |-> <<>>, exc |-> "URLError"]
    ELSE ViewCitationParse(got.page)

\* CitationParser._parse_article, lines 382-383
MergeUrl(art, info) ==
    IF "url" \in DOMAIN info THEN SetItem(art, K_url, info["url"]) ELSE art

\* CitationParser._parse_article, lines 385-387
MergeVersions(art, info) ==
    IF "url_versions" \in DOMAIN info
    THEN SetItem(SetItem(art, K_num_versions, info["num_versions"]),
                 K_url_versions, info["url_versions"])
    ELSE art

\* CitationParser._parse_article, lines 389-393
MergeSpans(art, spans) ==
    IF Len(spans) > 1
    THEN SetItem(SetItem(art, K_authors, StrV(GetText(spans[1]))),
                 K_journal, StrV(GetText(spans[2])))
    ELSE IF Len(spans) > 0
    THEN SetItem(art, K_authors, StrV(GetText(spans[1])))
    ELSE art

\* CitationParser._parse_article, lines 396-397: cas holds the anchors of
\* the citations cell
CitedBy(site, art, cas) ==
    IF cas = <<>> THEN Step(art, "AttributeError")
    ELSE IF cas[1].href = NoneV
    THEN Step(SetItem(art, K_num_citations, AsInt(GetText(cas[1]))),
              "AttributeError")
    ELSE Step(SetItem(SetItem(art, K_num_citations, AsInt(GetText(cas[1]))),
                      K_url_citations, StrV(Path2Url(site, cas[1].href.s))),
              "none")

\* CitationParser._parse_article, lines 395-397
MergeCitations(site, art, cites) ==
    IF cites = <<>> THEN Step(art, "AttributeError")
    ELSE IF GetText(cites[1]) = <<>> THEN Step(art, "none")
    ELSE CitedBy(site, art, FindAllName(cites[1], "a"))

\* CitationParser._parse_article, line 399
MergeYear(st, years) ==
    IF st.exc # "none" THEN st
    ELSE IF years = <<>> THEN Step(st.art, "AttributeError")
    ELSE Step(SetItem(st.art, K_year, StrV(GetText(years[1]))), "none")

\* CitationParser._parse_article, lines 382-399: after the nested fetch
CitationMerge(site, art, tr, info) ==
    MergeYear(
        MergeCitations(site,
            MergeSpans(MergeVersions(MergeUrl(art, info), info),
                       FindAllName(FindAllId(tr, "col-title")[1], "span")),
            FindAllId(tr, "col-citedby")),
        FindAllId(tr, "col-year"))

\* CitationParser._parse_article, lines 401-402, after the nested fetch
RowEnd(m) ==
    [art |-> m.art, exc |-> m.exc, emit |-> m.exc = "none" /\ Emits(m.art),
     fetched |-> TRUE]

\* CitationParser._parse_article from line 380 on: view is the outcome of
\* query_citation_view
AfterView(site, art, tr, view) ==
    IF view.exc # "none"
    THEN [art |-> art, exc |-> view.exc, emit |-> FALSE, fetched |-> TRUE]
    ELSE RowEnd(CitationMerge(site, art, tr, view.info))

\* CitationParser._parse_article, lines 376-378: as holds the anchors of
\* the title cell
RowTitle(site, as, tr, got) ==
    IF as = <<>>
    THEN [art |-> ArticleInit, exc |-> "AttributeError", emit |-> FALSE,
          fetched |-> FALSE]
    ELSE IF as[1].href = NoneV
    THEN [art |-> SetItem(ArticleInit, K_title, StrV(GetText(as[1]))),
          exc |-> "AttributeError", emit |-> FALSE, fetched |-> FALSE]
    ELSE AfterView(site,
                   SetItem(ArticleInit, K_title, StrV(GetText(as[1]))),
                   tr, QueryCitationView(got))

\* tag.a for the first tag of a find: the anchors under it
FirstAnchors(found) ==
    IF found = <<>> THEN <<>> ELSE FindAllName(found[1], "a")

\* CitationParser._parse_article: the article, the exception raised (if
\* any), whether handle_article is called and whether the nested fetch of
\* the citation-detail page was made
CitationArticle(site, tr, got) ==
    RowTitle(site, FirstAnchors(FindAllId(tr, "col-title")), tr, got)

\* CitationParser._tag_checker
IsRow(tag) ==
    tag.kind = "tag" /\ tag.name = "tr" /\ tag.class = "cit-table item"

(***************************************************************************)
(* class ScholarQuerier: the queries.                                      *)
(***************************************************************************)
\* a clear_articles that keeps the articles of earlier queries
KeepArticles(q) == q

\* ScholarQuerier.clear_articles
ClearArticles(q) == [q EXCEPT !.articles = <<>>]

\* an add_article that puts the article in front of the others
PrependArticle(articles, art) == <<art>> \o articles

\* ScholarQuerier.add_article
AddArticle(articles, art) == Append(articles, art)

\* the add_article calls that Parser.handle_article and
\* CitationParser.handle_article make, in order
RECURSIVE AddAll(_, _)
AddAll(articles, handled) ==
    IF handled = <<>> THEN articles
    ELSE AddAll(AddArticle(articles, Head(handled)), Tail(handled))

\* template % mapping raises KeyError: the template names a slot that the
\* mapping does not give
MissingSlot(template, given) ==
    \E slot \in {SLOT_QUERY, SLOT_AUTHOR} \ given : Contains(template, slot)

\* the scan of the author-search page was not reached
NoScan == [ret |-> NoneV, exc |-> "unmade"]

\* no query made yet on the querier
NoCall ==
    [op |-> "none", status |-> "none", exc |-> "none", fetches |-> 0,
     scan |-> NoScan, stale |-> FALSE, total |-> 0, doc |-> <<>>,
     handled |-> <<>>]

\* the outcome of a query: the querier, the articles handed over, the
\* exception raised (if any) and the number of fetches made
Collected(q, r, fetches) ==
    [q |-> [q EXCEPT !.articles = AddAll(q.articles, r.handled)],
     handled |-> r.handled, exc |-> r.exc, fetches |-> fetches]

\* ScholarQuerier.parse: parser = self.Parser(self); parser.parse(html)
QuerierParse(q, soup, fetches) ==
    Collected(q, ParserParse("120726", SCHOLAR_SITE, soup), fetches)

\* ScholarQuerier.query
QueryCall(q, got) ==
    IF MissingSlot(q.scholar_url, {SLOT_QUERY, SLOT_AUTHOR})
    THEN [q |-> ClearArticles(q), handled |-> <<>>, exc |-> "KeyError",
          fetches |-> 0]
    ELSE IF got.fault
    THEN [q |-> ClearArticles(q), handled |-> <<>>, exc |-> "URLError",
          fetches |-> 1]
    ELSE QuerierParse(ClearArticles(q), got.page, 1)

\* query_author, lines 466-471: ap is the outcome of AuthorParser.parse.
\* Request(url=None) raises AttributeError before anything is fetched.
ProfileCall(q0, ap, got2) ==
    IF ap.exc # "none"
    THEN [q |-> q0, exc |-> ap.exc, fetches |-> 1, scan |-> ap, trs |-> <<>>]
    ELSE IF ap.ret = NoneV
    THEN [q |-> q0, exc |-> "AttributeError", fetches |-> 1, scan |-> ap,
          trs |-> <<>>]
    ELSE IF got2.fault
    THEN [q |-> q0, exc |-> "URLError", fetches |-> 2, scan |-> ap,
          trs |-> <<>>]
    ELSE [q |-> q0, exc |-> "none", fetches |-> 2, scan |-> ap,
          trs |-> SelectSeq(Desc(got2.page), IsRow)]

\* ScholarQuerier.query_author, up to the call of parse_citation_page: the
\* rows of the profile page, or the exception raised
QueryAuthorCall(q, got1, got2) ==
    IF MissingSlot(q.scholar_url, {SLOT_AUTHOR})
    THEN [q |-> ClearArticles(q), exc |-> "KeyError", fetches |-> 0,
          scan |-> NoScan, trs |-> <<>>]
    ELSE IF got1.fault
    THEN [q |-> ClearArticles(q), exc |-> "URLError", fetches |-> 1,
          scan |-> NoScan, trs |-> <<>>]
    ELSE ProfileCall(ClearArticles(q), AuthorParse(got1.page), got2)

(***************************************************************************)
(* The documents the transport returns.                                    *)
(***************************************************************************)
S_deep == <<"D","e","e","p"," ">>
S_learning == <<"L","e","a","r","n","i","n","g">>
S_byline ==
    <<"J"," ","D","o","e"," ","-"," ","N","a","t","u","r","e",","," ","2",
      "0","1","2">>
S_p == <<"/","p">>
S_q == <<"/","q">>
S_t == <<"T">>
S_about ==
    <<"/","i","n","t","l","/","e","n","/","a","b","o","u","t">>
S_user1 ==
    <<"/","c","i","t","a","t","i","o","n","s","?","u","s","e","r","=","U",
      "1","&","h","l","=","e","n">>
S_user2 ==
    <<"/","c","i","t","a","t","i","o","n","s","?","u","s","e","r","=","U",
      "2">>
S_view1 ==
    <<"/","c","i","t","a","t","i","o","n","s","?","v","i","e","w","_","o",
      "p","=","v","i","e","w","&","f","o","r","=","1">>
S_view2 ==
    <<"/","c","i","t","a","t","i","o","n","s","?","v","i","e","w","_","o",
      "p","=","v","i","e","w","&","f","o","r","=","2">>
S_paper1 == <<"P","a","p","e","r"," ","O","n","e">>
S_paper2 == <<"P","a","p","e","r"," ","T","w","o">>
S_authors == <<"J"," ","D","o","e",","," ","A"," ","R","o","e">>
S_journal == <<"N","a","t","u","r","e"," ","1">>
S_cites5 ==
    <<"/","s","c","h","o","l","a","r","?","c","i","t","e","s","=","5">>
S_12 == <<"1","2">>
S_2012 == <<" ","2","0","1","2"," ">>
S_ext ==
    <<"h","t","t","p",":","/","/","x",".","o","r","g","/","p">>
S_vers ==
    <<"/","s","c","h","o","l","a","r","?","h","l","=","e","n","&","c","l",
      "u","s","t","e","r","=","9">>

Div(class, kids) == El("div", class, "", NoneV, kids)
Html(kids) == El("html", "", "", NoneV, kids)
Strs(s) == <<Text(s)>>

\* a revision-B block with a title, a byline and both links
B_full ==
    Div("gs_r", <<Div("gs_ri", <<
        El("h3", "gs_rt", "", NoneV, <<
            A(StrV(S_p), <<Text(S_deep),
                           El("b", "", "", NoneV, Strs(S_learning))>>)>>),
        Div("gs_a", Strs(S_byline)),
        Div("gs_fl", <<A(StrV(H_cites), Strs(T_cited42)),
                       A(StrV(H_cluster), Strs(T_all3))>>)>>)>>)

\* a revision-B block whose title anchor has no text
B_empty ==
    Div("gs_r", <<Div("gs_ri", <<
        El("h3", "gs_rt", "", NoneV, <<A(StrV(S_q), <<>>)>>)>>)>>)

\* a revision-B block with no title anchor: its first anchor is a link
B_links ==
    Div("gs_r", <<Div("gs_ri", <<
        Div("gs_fl", <<A(StrV(H_cites), Strs(T_citedx))>>)>>)>>)

\* a revision-B block with a 'Cited by' anchor whose text carries markup
B_markup ==
    Div("gs_r", <<Div("gs_ri", <<
        El("h3", "gs_rt", "", NoneV, <<A(StrV(S_p), Strs(S_t))>>),
        Div("gs_fl", <<A(StrV(H_cites), MarkedUp)>>)>>)>>)

\* a baseline block
B_base ==
    Div("gs_r", <<
        Div("gs_rt", <<El("h3", "", "", NoneV, <<A(StrV(S_p), Strs(S_t))>>)>>),
        El("font", "", "", NoneV, <<
            El("span", "gs_fl", "", NoneV,
               <<A(StrV(H_cites), Strs(T_cited42))>>)>>)>>)

\* a revision-A block
B_revA ==
    Div("gs_r", <<
        El("h3", "gs_rt", "", NoneV, <<A(StrV(S_q), Strs(S_t))>>),
        Div("gs_a", Strs(S_byline)),
        Div("gs_fl", <<A(StrV(H_cluster), Strs(T_allx))>>)>>)

\* the blocks of the pages given to the parser of each variant: two that
\* it takes a title from, and those it takes none from or fails on
Blocks(variant) ==
    CASE variant = "base"   -> {B_base, B_empty}
      [] variant = "120201" -> {B_revA, B_empty}
      [] variant = "120726" -> {B_full, B_empty, B_links, B_markup}

SeqsUpTo(S, n) == UNION {[1..m -> S] : m \in 0..n}

ResultPages(variant) ==
    {Html(bs) : bs \in SeqsUpTo(Blocks(variant), MaxBlocks)}

\* the pages of an author search: two profile anchors after another
\* anchor; no anchor; no profile anchor; an anchor without href
P_profile ==
    Html(<<A(StrV(S_about), Strs(S_t)), A(StrV(S_user1), Strs(S_t)),
           A(StrV(S_user2), Strs(S_t))>>)

AuthorPages ==
    {P_profile,
     Html(<<>>),
     Html(<<A(StrV(S_about), Strs(S_t))>>),
     Html(<<A(NoneV, Strs(S_t))>>)}

Td(id, kids) == El("td", "", id, NoneV, kids)
Row(kids) == El("tr", "cit-table item", "", NoneV, kids)

\* a row with authors, journal, citation count and year
R_full ==
    Row(<<Td("col-title", <<A(StrV(S_view1), Strs(S_paper1)),
                            El("span", "", "", NoneV, Strs(S_authors)),
                            El("span", "", "", NoneV, Strs(S_journal))>>),
          Td("col-citedby", <<A(StrV(S_cites5), Strs(S_12))>>),
          Td("col-year", Strs(S_2012))>>)

\* a row with an empty citations cell
R_uncited ==
    Row(<<Td("col-title", <<A(StrV(S_view2), Strs(S_paper2)),
                            El("span", "", "", NoneV, Strs(S_authors))>>),
          Td("col-citedby", <<>>),
          Td("col-year", <<>>)>>)

\* a row whose title anchor has no text
R_blank ==
    Row(<<Td("col-title", <<A(StrV(S_view2), <<>>)>>),
          Td("col-citedby", <<>>),
          Td("col-year", Strs(S_2012))>>)

Rows == {R_full, R_uncited, R_blank}

ProfilePages ==
    {Html(<<El("table", "", "", NoneV, rs)>>) : rs \in SeqsUpTo(Rows, MaxRows)}

\* a citation-detail page with an absolute article URL and a versions link
D_versions ==
    Html(<<El("td", "cit-contentcell", "", NoneV, <<
        El("div", "", "title", NoneV, <<A(StrV(S_ext), Strs(S_paper1))>>),
        A(StrV(S_vers), Strs(T_all3))>>)>>)

\* a citation-detail page with a relative article URL and no versions link
D_plain ==
    Html(<<El("td", "cit-contentcell", "", NoneV, <<
        El("div", "", "title", NoneV, <<A(StrV(S_p), Strs(S_paper2))>>)>>)>>)

\* a citation-detail page without the 'cit-contentcell' cell
D_nocell == Html(<<Div("", Strs(S_t))>>)

DetailPages == {D_versions, D_plain, D_nocell}

Got(pages) == {Fault} \cup {Page(p) : p \in pages}

\* what the two fetches of query_author return; the second is a fault
\* where the first does not lead to it
AuthorFetches ==
    {got \in Got(AuthorPages) \X Got(ProfilePages) :
        got[1] # Page(P_profile) => got[2] = Fault}

\* the queriers made: for a keyword search, and for an author search
QuerierArgs ==
    {[author |-> <<>>, search_author |-> FALSE],
     [author |-> <<"a">>, search_author |-> TRUE]}

(***************************************************************************)
(* The queries as actions.                                                 *)
(***************************************************************************)
\* querier = ScholarQuerier(author=author, search_author=search_author)
NewQuerier(author, search_author) ==
    /\ pc = "idle"
    /\ querier' = QuerierInit(author, NoneV, 0, search_author)
    /\ ctorArgs' = [author |-> author, scholar_url |-> NoneV, count |-> 0,
                    search_author |-> search_author]
    /\ call' = NoCall
    /\ UNCHANGED <<pc, rows, recVars, linkVars>>

\* the querier and the record of the call after a query that ran to its
\* end with outcome r
Returned(op, r, doc) ==
    /\ querier' = r.q
    /\ call' = [op |-> op,
                status |-> IF r.exc = "none" THEN "ok" ELSE "fault",
                exc |-> r.exc, fetches |-> r.fetches, scan |-> NoScan,
                stale |-> querier.articles # <<>>, total |-> 0, doc |-> doc,
                handled |-> r.handled]

\* querier.query(search)
Query(got) ==
    /\ pc = "idle"
    /\ Returned("query", QueryCall(querier, got), <<got>>)
    /\ UNCHANGED <<pc, rows, ctorArgs, recVars, linkVars>>

\* querier.parse(html), while the collection holds no more than a result
\* page does
Parse(soup) ==
    /\ pc = "idle"
    /\ Len(querier.articles) + Len(soup.kids) <= MaxBlocks
    /\ Returned("parse", QuerierParse(querier, soup, 0), <<>>)
    /\ UNCHANGED <<pc, rows, ctorArgs, recVars, linkVars>>

\* the record of the call after the parse of a parser that is not the
\* querier's
StandaloneDone(r) ==
    call' = [op |-> "standalone",
             status |-> IF r.exc = "none" THEN "ok" ELSE "fault",
             exc |-> r.exc, fetches |-> 0, scan |-> NoScan,
             stale |-> querier.articles # <<>>, total |-> 0, doc |-> <<>>,
             handled |-> r.handled]

\* variant(site).parse(html), on a parser that is not the querier's: the
\* articles it hands to handle_article go nowhere.  It neither reads nor
\* writes the querier, and is run beside a querier that has made no query.
StandaloneParse(variant, soup) ==
    /\ pc = "idle"
    /\ call.op \in {"none", "standalone"}
    /\ StandaloneDone(ParserParse(variant, SCHOLAR_SITE, soup))
    /\ UNCHANGED <<querier, pc, rows, ctorArgs, recVars, linkVars>>

\* the state after query_author has fetched the profile page, or raised
ProfileFetched(r) ==
    /\ querier' = r.q
    /\ rows' = r.trs
    /\ pc' = IF r.trs = <<>> THEN "idle" ELSE "rows"
    /\ call' = [op |-> "query_author",
                status |-> IF r.exc # "none" THEN "fault"
                           ELSE IF r.trs = <<>> THEN "ok"
                           ELSE "running",
                exc |-> r.exc, fetches |-> r.fetches, scan |-> r.scan,
                stale |-> querier.articles # <<>>, total |-> Len(r.trs),
                doc |-> <<>>, handled |-> <<>>]

\* querier.query_author(search), up to the call of parse_citation_page
QueryAuthor(got1, got2) ==
    /\ pc = "idle"
    /\ ProfileFetched(QueryAuthorCall(querier, got1, got2))
    /\ UNCHANGED <<ctorArgs, recVars, linkVars>>

\* the rows left after _parse_article on the first: an exception ends
\* the loop
RowsLeft(r) == IF r.exc # "none" THEN <<>> ELSE Tail(rows)

\* the state after _parse_article on the first row, with outcome r
RowParsed(r, got) ==
    /\ querier' = IF r.emit
                  THEN [querier EXCEPT !.articles = AddArticle(@, r.art)]
                  ELSE querier
    /\ rows' = RowsLeft(r)
    /\ pc' = IF RowsLeft(r) = <<>> THEN "idle" ELSE "rows"
    /\ call' = [call EXCEPT
                  !.status = IF r.exc # "none" THEN "fault"
                             ELSE IF RowsLeft(r) = <<>> THEN "ok"
                             ELSE "running",
                  !.exc = r.exc,
                  !.fetches = IF r.fetched THEN @ + 1 ELSE @,
                  !.doc = Append(@, [tr |-> Head(rows), got |-> got]),
                  !.handled = IF r.emit THEN Append(@, r.art) ELSE @]

\* CitationParser.parse: one turn of the loop, _parse_article on the next
\* row with its nested fetch of the citation-detail page
CitationRow(got) ==
    /\ pc = "rows"
    /\ RowParsed(CitationArticle(SCHOLAR_SITE, Head(rows), got), got)
    /\ UNCHANGED <<ctorArgs, recVars, linkVars>>

Next ==
    \/ \E args \in QuerierArgs : NewQuerier(args.author, args.search_author)
    \/ \E got \in Got(ResultPages("120726")) : Query(got)
    \/ \E soup \in ResultPages("120726") : Parse(soup)
    \/ \E variant \in Variants \ {"120726"} :
          \E soup \in ResultPages(variant) : StandaloneParse(variant, soup)
    \/ \E got \in AuthorFetches : QueryAuthor(got[1], got[2])
    \/ \E got \in Got(DetailPages) : CitationRow(got)

(***************************************************************************)
(* The specifications.  Each exercises one part of the program and leaves  *)
(* the variables of the other parts at their initial values.               *)
(***************************************************************************)
DefaultArgs ==
    [author |-> <<>>, scholar_url |-> NoneV, count |-> 0,
     search_author |-> FALSE]

\* a fresh Article, no link parsed, a querier built with default arguments
Init ==
    /\ attrs = ArticleInit
    /\ csvOut = <<>>
    /\ recOp = [op |-> "init"]
    /\ nsets = 0
    /\ article = ArticleInit
    /\ link = NoLink
    /\ querier = QuerierInit(<<>>, NoneV, 0, FALSE)
    /\ ctorArgs = DefaultArgs
    /\ pc = "idle"
    /\ rows = <<>>
    /\ call = NoCall

Spec == Init /\ [][Next]_vars
SpecRecord == Init /\ [][RecNext]_vars
SpecLinks == Init /\ [][LinksNext]_vars
SpecCtor == Init /\ [][CtorNext]_vars

(***************************************************************************)
(* Claims about the Article record (SpecRecord).                           *)
(***************************************************************************)

\* C5: a __setitem__ on a field name that is not in the record gives the
\* field a display order index strictly greater than the index of every
\* field the record holds at that moment.
C5_FreshIndexOnSet ==
    [][\A k \in DOMAIN attrs' \ DOMAIN attrs :
          \A j \in DOMAIN attrs : attrs'[k].idx > attrs[j].idx]_recVars

\* the lines of the last as_csv output
CsvLines == Split(csvOut, <<"\n">>)

\* the separator occurs in no rendered value and in no field name
SepFree ==
    \A k \in DOMAIN attrs :
        /\ ~Contains(Unicode(attrs[k].val), recOp.sep)
        /\ ~Contains(k, recOp.sep)

\* field k can stand at position i of the display order (fields that share
\* an index may stand in either order)
HasRank(a, k, i) ==
    /\ Cardinality({j \in DOMAIN a : a[j].idx < a[k].idx}) < i
    /\ Cardinality({j \in DOMAIN a : a[j].idx <= a[k].idx}) >= i

\* splitting the value line on the separator gives one token per field, in
\* display order, and the header line splits into the field names likewise
RowShape ==
    LET n      == Cardinality(DOMAIN attrs)
        tokens == Split(CsvLines[Len(CsvLines)], recOp.sep)
        names  == Split(CsvLines[1], recOp.sep)
    IN  /\ Len(CsvLines) = IF recOp.header THEN 2 ELSE 1
        /\ Len(tokens) = n
        /\ \A i \in 1..n : \E k \in DOMAIN attrs :
              /\ HasRank(attrs, k, i)
              /\ tokens[i] = Unicode(attrs[k].val)
              /\ recOp.header => names[i] = k
        /\ recOp.header =>
              /\ Len(names) = n
              /\ {names[i] : i \in 1..Len(names)} = DOMAIN attrs

LinkIsAnchor ==
    link.tag.kind = "tag" /\ link.tag.name = "a" /\ link.tag.href # NoneV

\* tok is accepted by int(): an optional sign, then one or more digits
IsIntToken(tok) ==
    IsNumeral(IF tok # <<>> /\ tok[1] \in {"+", "-"} THEN Tail(tok) ELSE tok)

\* the count token of the last anchor, for a field it wrote
CountToken(field) ==
    LET toks == SplitWs(TagString(link.tag).s)
    IN  IF field = K_num_citations THEN toks[Len(toks)] ELSE toks[2]

\* after an anchor whose count token was read: the field holds the integer
\* the token spells, or None when the token spells none
CountFollowsToken(field) ==
    (link.exc = "none" /\ field \in link.wrote) =>
        IF IsIntToken(CountToken(field))
        THEN /\ article[field].val.t = "int"
             /\ IntToStr(article[field].val.n) = CountToken(field)
        ELSE article[field].val = NoneV

\* after an anchor whose count token was read and is no integer: the field
\* holds what it held before the anchor
CountKeptOnBadToken(field) ==
    (link.exc = "none" /\ field \in link.wrote
        /\ ~IsIntToken(CountToken(field))) =>
            article[field].val = link.before[field].val

CountFields == {K_num_citations, K_num_versions}

C8_CitesLinkNeverRaises ==
    (LinkIsAnchor /\ StartsWith(link.tag.href.s, CITES_PREFIX)) =>
        /\ link.exc = "none"
        /\ article[K_url_citations].val
              = StrV(SCHOLAR_SITE \o link.tag.href.s)

CitesFields == {K_num_citations, K_url_citations}
VersionsFields == {K_num_versions, K_url_versions}

\* C10: no anchor writes both a citations field and a versions field, an
\* anchor whose href matches neither prefix writes no field at all, and a
\* field that changed is one the anchor wrote.
C10_ClassificationExclusive ==
    /\ ~(link.wrote \cap CitesFields # {} /\ link.wrote \cap VersionsFields # {})
    /\ \A k \in DOMAIN article :
          article[k] # link.before[k] => k \in link.wrote
    /\ DOMAIN article = DOMAIN link.before
    /\ (LinkIsAnchor
          /\ ~StartsWith(link.tag.href.s, CITES_PREFIX)
          /\ ~StartsWith(link.tag.href.s, CLUSTER_PREFIX)) =>
              link.wrote = {} /\ article = link.before

\* A 'Cited by' anchor was classified as citations: it wrote both citations
\* fields.
C10_Witness ==
    /\ LinkIsAnchor
    /\ StartsWith(link.tag.href.s, CITES_PREFIX)
    /\ link.exc = "none"
    /\ link.wrote = CitesFields

(***************************************************************************)
(* Claims about the construction of a querier (SpecCtor).                  *)
(***************************************************************************)

\* C7: for every count passed to the constructor, the stored count lies in
\* [0,100], and the URL template ends with '&num=<count>' exactly when the
\* stored count is nonzero.
C7_CountClampedAndSuffix ==
    /\ querier.count \in 0..MAX_COUNT
    /\ EndsWith(querier.scholar_url, NUM_FMT \o IntToStr(querier.count))
          <=> querier.count # 0


(***************************************************************************)
(* Claims about the queries (specification Spec).                          *)
(***************************************************************************)
\* the record has a title that is neither None nor the empty string
Titled(art) ==
    /\ K_title \in DOMAIN art
    /\ art[K_title].val.t = "str"
    /\ art[K_title].val.s # <<>>

\* C1: every record in the result collection of the querier, and every
\* record that a parser of any variant hands to handle_article, has a title
\* that is neither None nor the empty string.
C1_EmittedRecordsAreTitled ==
    /\ \A i \in 1..Len(querier.articles) : Titled(querier.articles[i])
    /\ \A i \in 1..Len(call.handled) : Titled(call.handled[i])

\* C1 happens: a query has parsed a page that holds a block with an empty
\* title, and records of the page are in the collection
C1_Witness ==
    /\ call.op = "query" /\ call.status = "ok"
    /\ \E i \in 1..Len(call.doc[1].page.kids) :
          call.doc[1].page.kids[i] = B_empty
    /\ querier.articles # <<>>

\* the records of a sequence of parse outcomes that have a title, in order
TitledArts(outs) ==
    LET kept == SelectSeq(outs, LAMBDA r : Titled(r.art))
    IN  [i \in 1..Len(kept) |-> kept[i].art]

\* the title-bearing records of the blocks of a result page, in page order
PageRecords(soup) ==
    LET divs == SelectSeq(Desc(soup), IsBlock)
    IN  TitledArts([i \in 1..Len(divs) |->
                       ParseArticle("120726", SCHOLAR_SITE, divs[i])])

\* the title-bearing records of the rows of a profile page, in page order,
\* each with the citation-detail page fetched for it
RowRecords(doc) ==
    TitledArts([i \in 1..Len(doc) |->
                   CitationArticle(SCHOLAR_SITE, doc[i].tr, doc[i].got)])

\* C2: after query or query_author returns normally, the result collection
\* holds exactly the title-bearing records of that query's page, in page
\* order, and nothing from an earlier query.
C2_CollectionIsThisQuerysRecords ==
    /\ (call.op = "query" /\ call.status = "ok")
          => querier.articles = PageRecords(call.doc[1].page)
    /\ (call.op = "query_author" /\ call.status = "ok")
          => querier.articles = RowRecords(call.doc)

\* C2 happens: a query made on a querier that held records of an earlier
\* call has returned normally with two different records
C2_Witness ==
    /\ call.op \in {"query", "query_author"} /\ call.status = "ok"
    /\ call.stale
    /\ Len(querier.articles) = 2
    /\ querier.articles[1] # querier.articles[2]

\* the scan of the author-search page ran to its end and found no anchor
\* with the profile marker
ScanFoundNothing ==
    call.op = "query_author" /\ call.scan = [ret |-> NoneV, exc |-> "none"]

\* C3: when the scan of the author-search page finds no profile anchor,
\* query_author makes no further fetch, raises nothing and leaves the
\* result collection empty.
C3_NoMatchStopsQuietly ==
    ScanFoundNothing
        => /\ call.fetches = 1
           /\ call.status = "ok"
           /\ querier.articles = <<>>

\* the parts of C3 that do not concern the fault: no further fetch, and an
\* empty collection
NoMatchStops ==
    ScanFoundNothing => call.fetches = 1 /\ querier.articles = <<>>

\* the value is None or a string that begins with 'http://'
AbsoluteOrAbsent(v) ==
    v = NoneV \/ (v.t = "str" /\ StartsWith(v.s, HTTP_SCHEME))

\* C6: in every record of the result collection, each of url,
\* url_citations and url_versions is None or begins with 'http://'.
C6_UrlsAbsoluteOrAbsent ==
    \A i \in 1..Len(querier.articles) :
        \A k \in {K_url, K_url_citations, K_url_versions} :
            AbsoluteOrAbsent(GetItem(querier.articles[i], k))

\* the records of a direct query do keep to C6
DirectUrlsAbsolute ==
    call.op \in {"query", "parse"} =>
        \A i \in 1..Len(call.handled) :
            \A k \in {K_url, K_url_citations, K_url_versions} :
                AbsoluteOrAbsent(GetItem(call.handled[i], k))


\* the author-search flow has fetched the profile page and is in, or has
\* left, the loop over its rows
InRowLoop ==
    /\ call.op = "query_author"
    /\ call.fetches >= 2
    /\ call.exc # "URLError" \/ call.doc # <<>>

\* the row leads to a citation-detail fetch: its title cell holds an anchor
\* with an href
ReachesFetch(tr) ==
    /\ FirstAnchors(FindAllId(tr, "col-title")) # <<>>
    /\ FirstAnchors(FindAllId(tr, "col-title"))[1].href # NoneV

\* the records the rows processed so far have put in the collection: those
\* of the rows parsed without an exception that have a title, in row order
RowsEmitted(doc) ==
    TitledArts(SelectSeq([i \in 1..Len(doc) |->
                             CitationArticle(SCHOLAR_SITE, doc[i].tr,
                                             doc[i].got)],
                         LAMBDA r : r.exc = "none"))

\* C11: in the author-search flow the rows of the profile page are processed
\* one after the other; each row processed has had exactly one
\* citation-detail fetch (none only when the row raises before the fetch),
\* the result collection holds the records of the rows processed so far,
\* each built from the page fetched for its row, in row order, and while no
\* exception is raised the rows processed and the rows left make up the page.
C11_OneFetchPerRowInOrder ==
    InRowLoop =>
        /\ call.fetches
              = 2 + Cardinality({i \in 1..Len(call.doc) :
                                    ReachesFetch(call.doc[i].tr)})
        /\ querier.articles = RowsEmitted(call.doc)
        /\ call.status # "fault" => Len(call.doc) + Len(rows) = call.total
        /\ call.status = "ok" => Len(call.doc) = call.total
        /\ Len(call.doc) <= call.total

\* C11 happens: query_author has returned normally from a profile page of
\* two rows, after two citation-detail fetches that returned different
\* pages, with the two records in the collection
C11_Witness ==
    /\ InRowLoop /\ call.status = "ok"
    /\ call.total = 2 /\ call.fetches = 4
    /\ call.doc[1].got # call.doc[2].got
    /\ Len(querier.articles) = 2
    /\ querier.articles[1] # querier.articles[2]


\* the page fetched has no 'cit-contentcell' table cell
LacksCell(got) ==
    ~got.fault /\ FindAllClass(got.page, "td", "cit-contentcell") = <<>>

\* the last citation-detail fetch of the author-search flow returned a page
\* without the 'cit-contentcell' cell
LastDetailLacksCell ==
    /\ InRowLoop /\ call.doc # <<>>
    /\ ReachesFetch(call.doc[Len(call.doc)].tr)
    /\ LacksCell(call.doc[Len(call.doc)].got)

\* C12: when the citation-detail page fetched for a row has no
\* 'cit-contentcell' cell, query_author ends in an AttributeError raised to
\* its caller: no row after it is processed, the row's record is not
\* appended and the collection holds the records of the earlier rows.
C12_MissingCellFaultsAndKeepsEarlier ==
    LastDetailLacksCell =>
        /\ call.status = "fault" /\ call.exc = "AttributeError"
        /\ pc = "idle" /\ rows = <<>>
        /\ querier.articles
              = RowsEmitted(SubSeq(call.doc, 1, Len(call.doc) - 1))
        /\ call.handled = querier.articles

\* the fault ends the loop for good: once the flow has stopped on a page
\* without the cell, no step of it adds a row or a record
NoRowAfterMissingCell ==
    [][(LastDetailLacksCell /\ call'.op = "query_author"
            /\ call'.doc # <<>>)
          => (call'.doc = call.doc
                /\ querier'.articles = querier.articles)]_vars

\* C12 happens: on a profile page of two rows the first row's record is in
\* the collection and the page fetched for the second has no cell
C12_Witness ==
    /\ LastDetailLacksCell
    /\ call.total = 2 /\ Len(call.doc) = 2
    /\ Len(querier.articles) = 1

\* the same with a row left over: the page fetched for the first of two
\* rows has no cell
MissingCellWithRowLeft ==
    /\ LastDetailLacksCell
    /\ call.total = 2 /\ Len(call.doc) = 1

=============================================================================
